---- MODULE Spec2Model ----
(***************************************************************************)
(* quick-commit (src/src/main.rs): an interactive run stages every change  *)
(* of the working tree, prints statistics, reads a commit title, commits   *)
(* and re-executes itself with RUN_BACKGROUND_TASK set to run `git push`.  *)
(*                                                                         *)
(* The repository is the shared state: the working tree, the persisted     *)
(* staging area (index), the commit graph with the branch reference HEAD   *)
(* resolves to, and the remote's copy of the branch.  A tree is a function *)
(* from the paths it holds to blobs; a blob is the sequence of its lines.  *)
(***************************************************************************)
EXTENDS Integers, Sequences, FiniteSets, TLC

\* ------------------------------------------------------------------ bounds
\* what the user does, in all: edits of the working tree and starts of the
\* program, one after the other
MaxActs == 4
\* calls made when stage(), lines() and commit() are called on their own
MaxCalls == 2

\* ------------------------------------------------------------- the universe
Paths == {"a.txt", "b.txt"}
\* repo.statuses() lists its entries sorted by path
PathOrder == <<"a.txt", "b.txt">>
Blobs == {<<1>>, <<1, 2>>, <<2, 3>>}
EmptyTree == [p \in {} |-> <<>>]
Trees == UNION {[D -> Blobs] : D \in SUBSET Paths}

Without(t, p) == [q \in (DOMAIN t) \ {p} |-> t[q]]
With(t, p, b) == [q \in (DOMAIN t) \cup {p} |-> IF q = p THEN b ELSE t[q]]

VARIABLES
    wt,          \* working tree: path -> blob, for the files that exist
    index,       \* the staging area as persisted on disk: path -> blob
    conflicted,  \* paths the persisted index holds as merge conflicts
    commits,     \* the object database's commits, commit id = position
    head,        \* the commit the current branch points at, 0 = unborn branch
    remote,      \* the commit the remote's branch points at, 0 = none
    pc,          \* where the interactive process is in main()
    run,         \* the interactive process: its locals and what it did
    nruns,       \* interactive runs started so far
    bg,          \* the background-push processes, in spawn order
    acts,        \* what the user has done so far: edits and starts
    last,        \* the most recent call of stage(), lines() or commit(), while
                 \* no edit came after it
    pass         \* the staging pass before the current one, while no edit
                 \* or commit came between

vars == <<wt, index, conflicted, commits, head, remote, pc, run, nruns, bg,
          acts, last, pass>>

\* ------------------------------------------------------------ the commit graph
HeadTree(cs, h) == IF h = 0 THEN EmptyTree ELSE cs[h].tree

RECURSIVE IsAncestorOrSelf(_, _, _)
\* commit a is reachable from commit t over parent links
IsAncestorOrSelf(cs, a, t) ==
    IF t = 0 \/ a = 0 THEN FALSE
    ELSE IF a = t THEN TRUE
    ELSE \E k \in 1..Len(cs[t].parents) : IsAncestorOrSelf(cs, a, cs[t].parents[k])

\* ------------------------------------------------------------- status flags
\* git2::Status of one path, from the head tree h, the index i (with its
\* conflicted paths cf) and the working tree w
StatusOf(h, i, cf, w, p) ==
    IF p \in cf THEN {"CONFLICTED"}
    ELSE
      (IF p \in DOMAIN i /\ p \notin DOMAIN h THEN {"INDEX_NEW"} ELSE {})
      \cup (IF p \in DOMAIN i /\ p \in DOMAIN h /\ i[p] # h[p]
            THEN {"INDEX_MODIFIED"} ELSE {})
      \cup (IF p \notin DOMAIN i /\ p \in DOMAIN h THEN {"INDEX_DELETED"} ELSE {})
      \cup (IF p \in DOMAIN w /\ p \notin DOMAIN i THEN {"WT_NEW"} ELSE {})
      \cup (IF p \in DOMAIN w /\ p \in DOMAIN i /\ w[p] # i[p]
            THEN {"WT_MODIFIED"} ELSE {})
      \cup (IF p \notin DOMAIN w /\ p \in DOMAIN i THEN {"WT_DELETED"} ELSE {})

Intersects(status, flags) == status \cap flags # {}

\* the status has one of the six flags the match of stage() looks at
Relevant(status) ==
    Intersects(status, {"INDEX_NEW", "WT_NEW", "INDEX_MODIFIED", "WT_MODIFIED",
                        "INDEX_DELETED", "WT_DELETED"})

IsNew(status) == Intersects(status, {"INDEX_NEW", "WT_NEW"})
IsModified(status) == Intersects(status, {"INDEX_MODIFIED", "WT_MODIFIED"})
IsDeleted(status) == Intersects(status, {"INDEX_DELETED", "WT_DELETED"})

\* the match without its third arm
ClassifyNoDeleted(status) ==
    IF IsNew(status) THEN "INDEX_NEW"
    ELSE IF IsModified(status) THEN "INDEX_MODIFIED"
    ELSE "skip"

\* the match of stage(): the first arm whose guard holds
Classify(status) ==
    IF IsNew(status) THEN "INDEX_NEW"
    ELSE IF IsModified(status) THEN "INDEX_MODIFIED"
    ELSE IF IsDeleted(status) THEN "INDEX_DELETED"
    ELSE "skip"

\* ------------------------------------------------------------------ stage()
\* what can go wrong in the environment during one call of stage():
\* repo.index(), repo.statuses(), the add_path / remove_path of the k-th
\* entry, or index.write()
StageFaults ==
    {[at |-> a, k |-> 0] : a \in {"none", "index", "statuses", "write"}}
    \cup {[at |-> "entry", k |-> k] : k \in 1..Len(PathOrder)}

NoFault == [at |-> "none", k |-> 0]

\* index.add_path(path): the entry of path becomes the file in the working
\* tree; an error when there is no such file or the file cannot be read
AddPath(idx, w, p, io) ==
    IF io \/ p \notin DOMAIN w
    THEN [ok |-> FALSE, index |-> idx]
    ELSE [ok |-> TRUE, index |-> With(idx, p, w[p])]

\* index.remove_path(path): the entry of path is dropped; a path the index
\* does not hold is not an error
RemovePath(idx, p, io) ==
    IF io
    THEN [ok |-> FALSE, index |-> idx]
    ELSE [ok |-> TRUE, index |-> Without(idx, p)]

\* the arms with the second one calling remove_path
MutateModifiedRemoves(kind, idx, w, p, io) ==
    IF kind \in {"INDEX_DELETED", "INDEX_MODIFIED"}
    THEN RemovePath(idx, p, io) ELSE AddPath(idx, w, p, io)

\* one arm of the match: the staging-area mutation of a classified entry
Mutate(kind, idx, w, p, io) ==
    IF kind = "INDEX_DELETED" THEN RemovePath(idx, p, io) ELSE AddPath(idx, w, p, io)

MutationOf(kind) == IF kind = "INDEX_DELETED" THEN "remove_path" ELSE "add_path"

RECURSIVE StageLoopDeletedListed(_, _, _, _, _, _, _)
\* the loop with the third arm pushing its entry and leaving the index alone
StageLoopDeletedListed(k, st, idx, files, muts, w, fault) ==
    IF k > Len(PathOrder)
    THEN [ok |-> TRUE, index |-> idx, files |-> files, muts |-> muts]
    ELSE
      LET p == PathOrder[k]
          kind == Classify(st[p])
          files2 == Append(files, [path |-> p, kind |-> kind])
      IN IF st[p] = {} \/ kind = "skip"
         THEN StageLoopDeletedListed(k + 1, st, idx, files, muts, w, fault)
         ELSE IF kind = "INDEX_DELETED"
         THEN StageLoopDeletedListed(k + 1, st, idx, files2, muts, w, fault)
         ELSE
           LET r == Mutate(kind, idx, w, p, fault.at = "entry" /\ fault.k = k)
           IN IF r.ok
              THEN StageLoopDeletedListed(k + 1, st, r.index, files2,
                             Append(muts, [op |-> MutationOf(kind), path |-> p]),
                             w, fault)
              ELSE [ok |-> FALSE, index |-> r.index, files |-> files2,
                    muts |-> muts]

RECURSIVE StageLoop(_, _, _, _, _, _, _)
\* the for loop over the status entries, from the k-th path on: st is the
\* status list taken before the loop, idx the in-memory index, files the
\* classified changes and muts the index mutations so far
StageLoop(k, st, idx, files, muts, w, fault) ==
    IF k > Len(PathOrder)
    THEN [ok |-> TRUE, index |-> idx, files |-> files, muts |-> muts]
    ELSE
      LET p == PathOrder[k]
          kind == Classify(st[p])
      IN IF st[p] = {} \/ kind = "skip"
         THEN StageLoop(k + 1, st, idx, files, muts, w, fault)
         ELSE
           LET r == Mutate(kind, idx, w, p, fault.at = "entry" /\ fault.k = k)
               files2 == Append(files, [path |-> p, kind |-> kind])
           IN IF r.ok
              THEN StageLoop(k + 1, st, r.index, files2,
                             Append(muts, [op |-> MutationOf(kind), path |-> p]),
                             w, fault)
              ELSE [ok |-> FALSE, index |-> r.index, files |-> files2,
                    muts |-> muts]

\* stage() returning its list with the index never written
stageNoWrite(h, i, cf, w, fault) ==
    LET st == [p \in Paths |-> StatusOf(h, i, cf, w, p)]
        loop == StageLoop(1, st, i, <<>>, <<>>, w, fault)
    IN [ok |-> loop.ok, files |-> IF loop.ok THEN loop.files ELSE <<>>,
        index |-> i, mem |-> loop.index, muts |-> loop.muts, writes |-> 0]

\* stage(repo): the result, the index persisted afterwards, the in-memory
\* index, the mutations applied and the number of index.write() calls that
\* completed.  Paths are valid UTF-8 here, so the unwrap of from_utf8 does
\* not panic.
stage(h, i, cf, w, fault) ==
    LET st == [p \in Paths |-> StatusOf(h, i, cf, w, p)]
        loop == StageLoop(1, st, i, <<>>, <<>>, w, fault)
        failed(mem, muts) ==
            [ok |-> FALSE, files |-> <<>>, index |-> i, mem |-> mem,
             muts |-> muts, writes |-> 0]
    IN IF fault.at \in {"index", "statuses"} THEN failed(i, <<>>)
       ELSE IF ~loop.ok THEN failed(loop.index, loop.muts)
       ELSE IF fault.at = "write" THEN failed(loop.index, loop.muts)
       ELSE [ok |-> TRUE, files |-> loop.files, index |-> loop.index,
             mem |-> loop.index, muts |-> loop.muts, writes |-> 1]

\* ------------------------------------------------------------------ lines()
RECURSIVE LCS(_, _)
\* length of a longest common subsequence of two line sequences
LCS(a, b) ==
    IF a = <<>> \/ b = <<>> THEN 0
    ELSE IF Head(a) = Head(b) THEN 1 + LCS(Tail(a), Tail(b))
    ELSE LET x == LCS(Tail(a), b)
             y == LCS(a, Tail(b))
         IN IF x >= y THEN x ELSE y

FileLines(t, p) == IF p \in DOMAIN t THEN t[p] ELSE <<>>

RECURSIVE DiffStats(_, _, _)
\* repo.diff_tree_to_tree(old, new).stats(): lines inserted and deleted,
\* summed over the paths from the k-th on
DiffStats(k, old, new) ==
    IF k > Len(PathOrder) THEN [ins |-> 0, del |-> 0]
    ELSE LET p == PathOrder[k]
             a == FileLines(old, p)
             b == FileLines(new, p)
             c == LCS(a, b)
             rest == DiffStats(k + 1, old, new)
         IN [ins |-> rest.ins + (Len(b) - c), del |-> rest.del + (Len(a) - c)]

LinesFaults == {"none", "write_tree", "head", "diff"}

\* index.write_tree(): an index holding conflicts cannot be written as a tree
WriteTreeOk(cf, io) == ~io /\ cf = {}

\* lines(repo): every `?` returns the error at once
lines(cs, h, i, cf, fault) ==
    LET err(e) == [ok |-> FALSE, err |-> e, ins |-> 0, del |-> 0]
    IN IF ~WriteTreeOk(cf, fault = "write_tree")
       THEN err(IF cf # {} THEN "unmerged" ELSE "io")
       ELSE IF fault = "head" THEN err("io")
       ELSE IF h = 0 THEN err("unborn")
       ELSE IF fault = "diff" THEN err("io")
       ELSE LET d == DiffStats(1, HeadTree(cs, h), i)
            IN [ok |-> TRUE, err |-> "", ins |-> d.ins, del |-> d.del]

\* ----------------------------------------------------------------- commit()
CommitFaults ==
    {"none", "write_tree", "head", "find_commit", "commit", "update_ref"}
\* the identity configuration: is user.name set, is user.email set
Configs == {[name |-> TRUE, email |-> TRUE], [name |-> FALSE, email |-> TRUE],
            [name |-> TRUE, email |-> FALSE]}
FullConfig == [name |-> TRUE, email |-> TRUE]

\* repo.commit(Some("HEAD"), ..., tree, parents) failing after the commit
\* object was written, when the branch is to be moved: the object stays in
\* the object database and the branch where it was
RepoCommitNoRef(cs, h, tree, parents, msg, by) ==
    [ok |-> FALSE, err |-> "io",
     commits |-> Append(cs, [tree |-> tree, parents |-> parents, msg |-> msg,
                             by |-> by]),
     head |-> h]

\* repo.commit(Some("HEAD"), ..., tree, parents): the commit object is
\* written and the branch HEAD resolves to is moved to it
RepoCommit(cs, tree, parents, msg, by) ==
    LET cs2 == Append(cs, [tree |-> tree, parents |-> parents, msg |-> msg,
                           by |-> by])
    IN [ok |-> TRUE, err |-> "", commits |-> cs2, head |-> Len(cs2)]

\* commit() with every error of repo.head() returned, the unborn branch too
commitUnbornIsError(cs, h, i, cf, msg, cfg, fault, by) ==
    LET err(e) == [ok |-> FALSE, err |-> e, commits |-> cs, head |-> h]
    IN IF ~WriteTreeOk(cf, fault = "write_tree")
       THEN err(IF cf # {} THEN "unmerged" ELSE "io")
       ELSE IF ~cfg.name \/ ~cfg.email THEN err("config")
       ELSE IF fault = "head" THEN err("io")
       ELSE IF h = 0 THEN err("unborn")
       ELSE IF fault \in {"find_commit", "commit"} THEN err("io")
       ELSE RepoCommit(cs, i, <<h>>, msg, by)

\* commit(repo, message), called by run number `by`
commit(cs, h, i, cf, msg, cfg, fault, by) ==
    LET err(e) == [ok |-> FALSE, err |-> e, commits |-> cs, head |-> h]
    IN IF ~WriteTreeOk(cf, fault = "write_tree")
       THEN err(IF cf # {} THEN "unmerged" ELSE "io")
       ELSE IF ~cfg.name \/ ~cfg.email THEN err("config")
       ELSE IF fault = "head" THEN err("io")
       ELSE IF h = 0
            THEN IF fault = "commit" THEN err("io")
                 ELSE IF fault = "update_ref"
                 THEN RepoCommitNoRef(cs, h, i, <<>>, msg, by)
                 ELSE RepoCommit(cs, i, <<>>, msg, by)
       ELSE IF fault \in {"find_commit", "commit"} THEN err("io")
       ELSE IF fault = "update_ref"
       THEN RepoCommitNoRef(cs, h, i, <<h>>, msg, by)
       ELSE RepoCommit(cs, i, <<h>>, msg, by)

\* ---------------------------------------------------------- the prompt
Whitespace == {" ", "\n"}
\* what read_line can append to the empty title: nothing at end of input,
\* otherwise one line with its newline
Inputs == {<<>>, <<"\n">>, <<" ", "m", "\n">>}

RECURSIVE TrimStart(_)
TrimStart(s) ==
    IF s # <<>> /\ Head(s) \in Whitespace THEN TrimStart(Tail(s)) ELSE s

RECURSIVE TrimEnd(_)
TrimEnd(s) ==
    IF s # <<>> /\ s[Len(s)] \in Whitespace
    THEN TrimEnd(SubSeq(s, 1, Len(s) - 1)) ELSE s

\* str::trim
Trim(s) == TrimEnd(TrimStart(s))

\* ------------------------------------------------------ the records of state
\* run holds the locals of main (files, stat, title) and, as history, what
\* the run found and did; last and pass are history only.
NoStat == [ok |-> FALSE, err |-> "none", ins |-> 0, del |-> 0]

\* a process of the program that has not done anything yet
NewRun(n, h, i) ==
    [n |-> n, env |-> {}, files |-> <<>>, stat |-> NoStat, nread |-> -1,
     title |-> <<>>, exit |-> -1, at |-> "", head0 |-> h, index0 |-> i,
     scan |-> -1,
     writes |-> 0, trees |-> 0, commitId |-> 0, spawned |-> 0]

NoCall ==
    [fn |-> "none", ok |-> FALSE, err |-> "", injected |-> FALSE,
     fault |-> "none", head0 |-> 0,
     index0 |-> EmptyTree, cf0 |-> {}, wt0 |-> EmptyTree, files |-> <<>>,
     muts |-> <<>>, mem |-> EmptyTree, ins |-> 0, del |-> 0]

NoPass == [n |-> 0, index |-> EmptyTree, stat |-> NoStat, stat2 |-> NoStat]

\* the call record of fn made in the current state; r is what it returned
Call(fn, r, injected) ==
    [NoCall EXCEPT !.fn = fn, !.ok = r.ok, !.injected = injected,
                   !.head0 = head, !.index0 = index, !.cf0 = conflicted,
                   !.wt0 = wt]

\* the pass record after a call of stage() that returned r
PassAfterStage(r) ==
    IF ~r.ok THEN pass
    ELSE IF pass.n >= 1 THEN [pass EXCEPT !.n = 2, !.stat2 = NoStat]
    ELSE [NoPass EXCEPT !.n = 1, !.index = r.index]

\* the pass record after a call of lines() that returned r
PassAfterLines(r, injected) ==
    IF injected \/ pass.n = 0 THEN pass
    ELSE IF pass.n = 1 THEN [pass EXCEPT !.stat = r]
    ELSE [pass EXCEPT !.stat2 = r]

\* every exit with code 0
ExitZero(r, code, where) == [r EXCEPT !.exit = 0, !.at = where]

\* process::exit(code), a panic (code 101) or the return of main (code 0)
Exit(r, code, where) == [r EXCEPT !.exit = code, !.at = where]

\* env::var("RUN_BACKGROUND_TASK").is_ok()
IsBackground(env) == "RUN_BACKGROUND_TASK" \in env

\* ------------------------------------------------------------------- Init
InitTrees == {[p \in Paths |-> IF p = "a.txt" THEN <<1, 2>> ELSE <<2, 3>>]}

InitCommit(t) == [tree |-> t, parents |-> <<>>, msg |-> <<"m">>, by |-> 0]

\* a fresh repository (unborn branch, nothing in it) or a clean checkout of
\* a repository with one commit
Init ==
    /\ \E born \in BOOLEAN, t \in InitTrees :
         /\ commits = IF born THEN <<InitCommit(t)>> ELSE <<>>
         /\ head = IF born THEN 1 ELSE 0
         /\ remote = IF born THEN 1 ELSE 0
         /\ index = IF born THEN t ELSE EmptyTree
         /\ wt = IF born THEN t ELSE EmptyTree
    /\ conflicted = {}
    /\ pc = "idle"
    /\ run = NewRun(0, 0, EmptyTree)
    /\ nruns = 0
    /\ bg = <<>>
    /\ acts = 0
    /\ last = NoCall
    /\ pass = NoPass

\* ------------------------------------------------------- the user, outside
\* The user edits the working tree between interactive runs.  A run reads
\* the working tree in stage() only, so an edit made while it runs is, to
\* every later step, the same as one made before it or after it.
CanEdit == pc \in {"idle", "exited"} /\ acts < MaxActs

Edited ==
    /\ acts' = acts + 1
    /\ pass' = NoPass
    /\ last' = NoCall
    /\ UNCHANGED <<commits, head, remote, pc, run, nruns, bg>>

EditWrite(p, b) ==
    /\ CanEdit
    /\ FileLines(wt, p) # b
    /\ wt' = With(wt, p, b)
    /\ UNCHANGED <<index, conflicted>>
    /\ Edited

EditDelete(p) ==
    /\ CanEdit
    /\ p \in DOMAIN wt
    /\ wt' = Without(wt, p)
    /\ UNCHANGED <<index, conflicted>>
    /\ Edited

\* a merge made with another tool leaves path p in conflict in the index
EditConflict(p) ==
    /\ CanEdit
    /\ head # 0
    /\ p \notin conflicted
    /\ conflicted' = conflicted \cup {p}
    /\ UNCHANGED <<wt, index>>
    /\ Edited

\* a background process that has not exited
Running(b) == b.pc # "exited"

\* the user starts the program, RUN_BACKGROUND_TASK not set; the background
\* processes that have exited by then are forgotten
UserStart ==
    /\ pc \in {"idle", "exited"}
    /\ acts < MaxActs
    /\ acts' = acts + 1
    /\ nruns' = nruns + 1
    /\ run' = NewRun(nruns + 1, head, index)
    /\ pc' = "main"
    /\ last' = NoCall
    /\ bg' = SelectSeq(bg, Running)
    /\ UNCHANGED <<wt, index, conflicted, commits, head, remote, pass>>

\* the user interrupts the program at the prompt (SIGINT kills the process)
UserInterrupt ==
    /\ pc = "prompt"
    /\ run' = Exit(run, 130, "sigint")
    /\ pc' = "exited"
    /\ UNCHANGED <<wt, index, conflicted, commits, head, remote, nruns, bg,
                   acts, last, pass>>

\* ----------------------------------------- the calls and what they leave
StageResult(f) == stage(HeadTree(commits, head), index, conflicted, wt, f)
LinesResult(f) == lines(commits, head, index, conflicted, f)
CommitResult(msg, cfg, f, by) ==
    commit(commits, head, index, conflicted, msg, cfg, f, by)

\* a fault at the k-th entry is one only when that entry is staged
FaultHits(f) ==
    f.at = "entry" =>
        Classify(StatusOf(HeadTree(commits, head), index, conflicted, wt,
                          PathOrder[f.k])) # "skip"

\* the paths repo.statuses() reports as new, modified or deleted; -1 when
\* the scan was not made
Scanned(f) ==
    IF f.at \in {"index", "statuses"} THEN -1
    ELSE Cardinality({p \in Paths :
           Relevant(StatusOf(HeadTree(commits, head), index, conflicted, wt, p))})

\* the call with every mutation written to disk as it is made
StageCallWritesThrough(f) ==
    LET r == StageResult(f)
    IN /\ FaultHits(f)
       /\ index' = r.mem
       /\ last' = [Call("stage", r, f # NoFault) EXCEPT
                     !.fault = f.at, !.files = r.files, !.muts = r.muts,
                     !.mem = r.mem]
       /\ pass' = PassAfterStage(r)

\* stage(&repo) under fault f: the persisted index and the call's record
StageCall(f) ==
    LET r == StageResult(f)
    IN /\ FaultHits(f)
       /\ index' = r.index
       /\ last' = [Call("stage", r, f # NoFault) EXCEPT
                     !.fault = f.at, !.files = r.files, !.muts = r.muts,
                     !.mem = r.mem]
       /\ pass' = PassAfterStage(r)

\* lines(&repo) under fault f: nothing of the repository changes
LinesCall(f) ==
    LET r == LinesResult(f)
    IN /\ last' = [Call("lines", r, f # "none") EXCEPT
                     !.fault = f, !.err = r.err, !.ins = r.ins, !.del = r.del]
       /\ pass' = PassAfterLines(r, f # "none")

\* the call with the branch moved to a commit object written by a
\* repo.commit() that failed
CommitCallMovesToOrphan(msg, cfg, f, by) ==
    LET r == CommitResult(msg, cfg, f, by)
    IN /\ cfg = FullConfig \/ f = "none"
       /\ commits' = r.commits
       /\ head' = IF r.commits # commits THEN Len(r.commits) ELSE r.head
       /\ last' = [Call("commit", r, f # "none") EXCEPT
                     !.fault = f, !.err = r.err]
       /\ pass' = IF r.ok THEN NoPass ELSE pass

\* commit(&repo, msg) under configuration cfg and fault f
CommitCall(msg, cfg, f, by) ==
    LET r == CommitResult(msg, cfg, f, by)
    IN /\ cfg = FullConfig \/ f = "none"
       /\ commits' = r.commits
       /\ head' = r.head
       /\ last' = [Call("commit", r, f # "none") EXCEPT
                     !.fault = f, !.err = r.err]
       /\ pass' = IF r.ok THEN NoPass ELSE pass

\* index.write_tree() was reached and ran
TreeWritten(f) == IF f = "write_tree" THEN 0 ELSE 1

\* ------------------------------------------------- main(), interactive mode
\* main, to Repository::discover: not a background run, so the repository
\* is opened, or the process exits with 1
MainDiscover ==
    /\ pc = "main"
    /\ ~IsBackground(run.env)
    /\ \E found \in BOOLEAN :
         IF found
         THEN pc' = "stage" /\ run' = run
         ELSE pc' = "exited" /\ run' = Exit(run, 1, "open")
    /\ UNCHANGED <<wt, index, conflicted, commits, head, remote, nruns, bg,
                   acts, last, pass>>

\* let files = stage(&repo).unwrap_or_else(exit 1)
MainStage ==
    /\ pc = "stage"
    /\ \E f \in StageFaults :
         LET r == StageResult(f)
             ran == [run EXCEPT !.files = r.files, !.writes = @ + r.writes,
                                !.scan = Scanned(f)]
         IN /\ StageCall(f)
            /\ IF r.ok
               THEN pc' = "check" /\ run' = ran
               ELSE pc' = "exited" /\ run' = Exit(ran, 1, "stage")
    /\ UNCHANGED <<wt, conflicted, commits, head, remote, nruns, bg, acts>>

\* the check left out
HasChangesAlways(files) == TRUE

\* files.len() == 0, negated
HasChanges(files) == Len(files) # 0

\* the message printed, the exit forgotten
MainNoChangesFallsThrough ==
    /\ pc = "check"
    /\ Len(run.files) = 0
    /\ pc' = "lines"
    /\ UNCHANGED <<wt, index, conflicted, commits, head, remote, run, nruns,
                   bg, acts, last, pass>>

\* if files.len() == 0 { "No changes to commit"; exit(0) }
MainNoChanges ==
    /\ pc = "check"
    /\ ~HasChanges(run.files)
    /\ pc' = "exited"
    /\ run' = Exit(run, 0, "NoChanges")
    /\ UNCHANGED <<wt, index, conflicted, commits, head, remote, nruns, bg,
                   acts, last, pass>>

\* the loop that prints one line for each classified change
MainList ==
    /\ pc = "check"
    /\ HasChanges(run.files)
    /\ pc' = "lines"
    /\ UNCHANGED <<wt, index, conflicted, commits, head, remote, run, nruns,
                   bg, acts, last, pass>>

\* let (lines_inserted, lines_deleted) = lines(&repo).unwrap_or_else(exit 1)
MainLines ==
    /\ pc = "lines"
    /\ \E f \in LinesFaults :
         LET r == LinesResult(f)
             ran == [run EXCEPT !.stat = r, !.trees = @ + TreeWritten(f)]
         IN /\ LinesCall(f)
            /\ IF r.ok
               THEN pc' = "prompt" /\ run' = ran
               ELSE pc' = "exited" /\ run' = Exit(ran, 1, "lines")
    /\ UNCHANGED <<wt, index, conflicted, commits, head, remote, nruns, bg,
                   acts>>

\* read_line(&mut commit_title).expect(..); commit_title.trim()
MainPrompt ==
    /\ pc = "prompt"
    /\ \/ \E input \in Inputs :
            /\ run' = [run EXCEPT !.nread = Len(input), !.title = Trim(input)]
            /\ pc' = "commit"
       \/ /\ run' = Exit(run, 101, "read")
          /\ pc' = "exited"
    /\ UNCHANGED <<wt, index, conflicted, commits, head, remote, nruns, bg,
                   acts, last, pass>>

\* commit(&repo, commit_title) with its result dropped
MainCommitUnchecked ==
    /\ pc = "commit"
    /\ \E cfg \in Configs, f \in CommitFaults :
         LET r == CommitResult(run.title, cfg, f, run.n)
         IN /\ CommitCall(run.title, cfg, f, run.n)
            /\ pc' = "spawn"
            /\ run' = [run EXCEPT !.trees = @ + TreeWritten(f),
                                  !.commitId = IF r.ok THEN r.head ELSE @]
    /\ UNCHANGED <<wt, index, conflicted, remote, nruns, bg, acts>>

\* commit(&repo, commit_title).unwrap_or_else(exit 1)
MainCommit ==
    /\ pc = "commit"
    /\ \E cfg \in Configs, f \in CommitFaults :
         LET r == CommitResult(run.title, cfg, f, run.n)
             ran == [run EXCEPT !.trees = @ + TreeWritten(f)]
         IN /\ CommitCall(run.title, cfg, f, run.n)
            /\ IF r.ok
               THEN pc' = "spawn" /\ run' = [ran EXCEPT !.commitId = r.head]
               ELSE pc' = "exited" /\ run' = Exit(ran, 1, "commit")
    /\ UNCHANGED <<wt, index, conflicted, remote, nruns, bg, acts>>

\* a process of this program started by Command::new(current_exe)
\*     .env("RUN_BACKGROUND_TASK", "1")
NewBackground(by, c) ==
    [by |-> by, commit |-> c, env |-> {"RUN_BACKGROUND_TASK"}, pc |-> "main",
     child |-> "none", pushes |-> 0, tip |-> -1, outcome |-> "", exit |-> -1]

\* the spawn followed by a wait for the spawned process
MainSpawnWaits ==
    /\ pc = "spawn"
    /\ \/ /\ run.spawned = 0
          /\ pc' = pc
          /\ run' = [run EXCEPT !.spawned = 1]
          /\ bg' = Append(bg, NewBackground(run.n, run.commitId))
       \/ /\ run.spawned = 1
          /\ \A i \in 1..Len(bg) : bg[i].by = run.n => bg[i].pc = "exited"
          /\ pc' = "exited"
          /\ run' = Exit(run, 0, "end")
          /\ bg' = bg
    /\ UNCHANGED <<wt, index, conflicted, commits, head, remote, nruns, acts,
                   last, pass>>

\* env::current_exe().expect(..); Command::new(..).spawn().expect(..); the
\* end of main
MainSpawn ==
    /\ pc = "spawn"
    /\ pc' = "exited"
    /\ \/ /\ run' = Exit(run, 101, "exe")
          /\ bg' = bg
       \/ /\ run' = Exit(run, 101, "spawn")
          /\ bg' = bg
       \/ /\ run' = Exit([run EXCEPT !.spawned = @ + 1], 0, "end")
          /\ bg' = Append(bg, NewBackground(run.n, run.commitId))
    /\ UNCHANGED <<wt, index, conflicted, commits, head, remote, nruns, acts,
                   last, pass>>

\* ------------------------------------------------- main(), background mode
BgSet(i, r) == bg' = [bg EXCEPT ![i] = r]

BgFrame == UNCHANGED <<wt, index, conflicted, commits, head, pc, run, nruns,
                       acts, last, pass>>

\* the background process starting one more instance of the program
BgStartSpawnsAgain(i) ==
    /\ bg[i].pc = "main"
    /\ IsBackground(bg[i].env)
    /\ bg' = Append([bg EXCEPT ![i] = [bg[i] EXCEPT !.pc = "wait",
                                                    !.child = "running",
                                                    !.pushes = @ + 1]],
                    NewBackground(bg[i].by, bg[i].commit))
    /\ UNCHANGED remote
    /\ BgFrame

\* main: RUN_BACKGROUND_TASK is set, so run_background_process() is called:
\* Command::new("git").arg("push")...spawn().unwrap_or_else(exit 1)
BgStart(i) ==
    /\ bg[i].pc = "main"
    /\ IsBackground(bg[i].env)
    /\ \E started \in BOOLEAN :
         IF started
         THEN BgSet(i, [bg[i] EXCEPT !.pc = "wait", !.child = "running",
                                     !.pushes = @ + 1])
         ELSE BgSet(i, [bg[i] EXCEPT !.pc = "exited", !.exit = 1,
                                     !.outcome = "NoGit"])
    /\ UNCHANGED remote
    /\ BgFrame

\* the child `git push`: it reads the branch tip and, when the push is
\* accepted, the remote's branch points at it
GitPush(i) ==
    /\ bg[i].child = "running"
    /\ \E accepted \in BOOLEAN :
         /\ BgSet(i, [bg[i] EXCEPT !.tip = head,
                        !.child = IF accepted THEN "success" ELSE "failure"])
         /\ remote' = IF accepted THEN head ELSE remote
    /\ BgFrame

\* the report, with a failed push started again
BgWaitRetries(i) ==
    /\ bg[i].pc = "wait"
    /\ bg[i].child \in {"success", "failure"}
    /\ \/ /\ bg[i].child = "failure"
          /\ BgSet(i, [bg[i] EXCEPT !.pc = "main", !.child = "none"])
       \/ /\ bg[i].child = "success"
          /\ BgSet(i, [bg[i] EXCEPT !.pc = "exited", !.outcome = "Pushed",
                                    !.exit = 0])
    /\ UNCHANGED remote
    /\ BgFrame

\* child.wait().expect(..) and the report; then main calls exit(0)
BgWait(i) ==
    /\ bg[i].pc = "wait"
    /\ bg[i].child \in {"success", "failure"}
    /\ \/ BgSet(i, [bg[i] EXCEPT !.pc = "exited", !.exit = 101,
                                 !.outcome = "WaitFailed"])
       \/ /\ bg[i].child = "failure"
          /\ BgSet(i, [bg[i] EXCEPT !.pc = "exited", !.exit = 0,
                                    !.outcome = "PushFailed"])
       \/ /\ bg[i].child = "success"
          \* Command::new("\n").output().expect("failed to execute process")
          /\ \E executed \in BOOLEAN :
               BgSet(i, [bg[i] EXCEPT !.pc = "exited", !.outcome = "Pushed",
                                      !.exit = IF executed THEN 0 ELSE 101])
    /\ UNCHANGED remote
    /\ BgFrame

\* ------------------------------------------------------------------- Next
Next ==
    \/ \E p \in Paths, b \in Blobs : EditWrite(p, b)
    \/ \E p \in Paths : EditDelete(p)
    \/ \E p \in Paths : EditConflict(p)
    \/ UserStart
    \/ UserInterrupt
    \/ MainDiscover
    \/ MainStage
    \/ MainNoChanges
    \/ MainList
    \/ MainLines
    \/ MainPrompt
    \/ MainCommit
    \/ MainSpawn
    \/ \E i \in 1..Len(bg) : BgStart(i)
    \/ \E i \in 1..Len(bg) : GitPush(i)
    \/ \E i \in 1..Len(bg) : BgWait(i)

Spec == Init /\ [][Next]_vars

\* The interactive process is a sequential program: a step of main that
\* can be taken is taken.  The prompt is left out, read_line blocks for as
\* long as the user types nothing; so are the user, the background
\* processes and `git push`, which may run forever.
MainFairness ==
    /\ WF_vars(MainDiscover)
    /\ WF_vars(MainStage)
    /\ WF_vars(MainNoChanges)
    /\ WF_vars(MainList)
    /\ WF_vars(MainLines)
    /\ WF_vars(MainCommit)
    /\ WF_vars(MainSpawn)

SpecLive == Init /\ [][Next]_vars /\ MainFairness

\* ------------------------------------------- the three functions on their own
\* stage(), lines() and commit() called on any repository: any index and
\* working tree over an unborn branch or over one commit
InitUnit ==
    /\ \E born \in BOOLEAN, t \in InitTrees :
         /\ commits = IF born THEN <<InitCommit(t)>> ELSE <<>>
         /\ head = IF born THEN 1 ELSE 0
         /\ remote = 0
    /\ index \in Trees
    /\ wt \in Trees
    /\ conflicted \in {c \in SUBSET Paths : Cardinality(c) <= 1}
    /\ pc = "unit"
    /\ run = NewRun(0, 0, EmptyTree)
    /\ nruns = 0
    /\ bg = <<>>
    /\ acts = 0
    /\ last = NoCall
    /\ pass = NoPass

UnitFrame ==
    /\ pc = "unit"
    /\ acts < MaxCalls
    /\ acts' = acts + 1
    /\ UNCHANGED <<wt, conflicted, remote, pc, run, nruns, bg>>

UnitStage ==
    /\ UnitFrame
    /\ \E f \in StageFaults : StageCall(f)
    /\ UNCHANGED <<commits, head>>

UnitLines ==
    /\ UnitFrame
    /\ \E f \in LinesFaults : LinesCall(f)
    /\ UNCHANGED <<index, commits, head>>

UnitCommit ==
    /\ UnitFrame
    /\ \E input \in Inputs, cfg \in Configs, f \in CommitFaults :
         CommitCall(Trim(input), cfg, f, acts + 1)
    /\ UNCHANGED index

NextUnit == UnitStage \/ UnitLines \/ UnitCommit

SpecUnit == InitUnit /\ [][NextUnit]_vars

\* ================================================================ the claims
Bg == {bg[i] : i \in 1..Len(bg)}

\* C1: a background push is spawned only by a run whose commit() succeeded,
\* when the branch already points at that commit; the tip every background
\* push reads contains the commit of the run that spawned it.
C1_SpawnAfterCommit ==
    /\ pc = "spawn" => run.commitId # 0 /\ head = run.commitId
    /\ run.spawned > 0 => run.commitId # 0
    /\ \A b \in Bg :
         /\ b.commit \in 1..Len(commits)
         /\ commits[b.commit].by = b.by
         /\ IsAncestorOrSelf(commits, b.commit, head)
         /\ b.tip # -1 => IsAncestorOrSelf(commits, b.commit, b.tip)

\* a push that read a tip a later run had moved past its own commit
C1_Witness == \E b \in Bg : b.tip # -1 /\ b.tip # b.commit

\* C2: commit() on an unborn branch succeeds with a commit without parents;
\* on a branch with a tip the commit has that tip as its one parent; HEAD
\* points at the new commit afterwards.
C2_CommitParents ==
    last.fn = "commit" =>
      /\ last.head0 = 0 /\ last.err \notin {"io", "config", "unmerged"} => last.ok
      /\ last.ok =>
           /\ head = Len(commits)
           /\ head # last.head0
           /\ commits[head].parents =
                IF last.head0 = 0 THEN <<>> ELSE <<last.head0>>
           /\ commits[head].tree = last.index0

\* a root commit made by commit(), and a second commit on top of it
C2_Witness ==
    /\ last.fn = "commit" /\ last.ok /\ last.head0 = 1
    /\ commits[1].by # 0 /\ commits[1].parents = <<>>
    /\ commits[head].parents = <<1>>

RECURSIVE TotalLines(_, _)
TotalLines(k, t) ==
    IF k > Len(PathOrder) THEN 0
    ELSE Len(FileLines(t, PathOrder[k])) + TotalLines(k + 1, t)

\* C3: on an unborn branch lines() succeeds, with insertions the total line
\* count of the staged files and no deletions.
C3_UnbornLinesSucceed ==
    (last.fn = "lines" /\ last.head0 = 0 /\ ~last.injected /\ last.cf0 = {}) =>
        /\ last.ok
        /\ last.ins = TotalLines(1, last.index0)
        /\ last.del = 0

\* the frame of a run that has nothing to commit
NothingDone ==
    /\ run.trees = 0
    /\ run.commitId = 0 /\ head = run.head0
    /\ run.spawned = 0 /\ \A b \in Bg : b.by # run.n

\* C4, as claimed: a run whose scan finds no new, modified or deleted path
\* exits with 0 and has written no staging area, made no commit and
\* spawned no push.
C4_NoChangesNoWrite ==
    (run.scan = 0 /\ run.at # "stage") =>
      /\ pc \in {"check", "exited"}
      /\ pc = "exited" => run.exit = 0
      /\ run.writes = 0
      /\ NothingDone

\* C4, amended: such a run has called index.write() once, which leaves the
\* persisted staging area holding what it held; it exits with 0 when that
\* write succeeded (with 1 when it failed) and has written no tree, made
\* no commit and spawned no push.
C4_NoChangesFrame ==
    run.scan = 0 =>
      /\ pc \in {"check", "exited"}
      /\ index = run.index0
      /\ pc = "check" => run.writes = 1
      /\ pc = "exited" =>
           \/ run.writes = 1 /\ run.exit = 0 /\ run.at = "NoChanges"
           \/ run.writes = 0 /\ run.exit = 1 /\ run.at = "stage"
      /\ NothingDone

\* a run that ends with nothing to commit over an index that differs from
\* HEAD in a conflicted path
C4_Witness ==
    /\ run.scan = 0 /\ pc = "exited" /\ run.exit = 0 /\ run.writes = 1
    /\ conflicted # {}

\* C5: end of input at the prompt (read_line reads 0 bytes) ends the run
\* with the changes staged and no commit: the branch where it was and no
\* push spawned.
C5_EofLeavesUncommitted ==
    (pc = "exited" /\ run.nread = 0) =>
        /\ head = run.head0
        /\ run.commitId = 0
        /\ run.spawned = 0

KindAgrees(kind, status) ==
    /\ kind \in {"INDEX_NEW", "INDEX_MODIFIED", "INDEX_DELETED"}
    /\ kind = "INDEX_NEW" => Intersects(status, {"INDEX_NEW", "WT_NEW"})
    /\ kind = "INDEX_MODIFIED" =>
         Intersects(status, {"INDEX_MODIFIED", "WT_MODIFIED"})
    /\ kind = "INDEX_DELETED" =>
         Intersects(status, {"INDEX_DELETED", "WT_DELETED"})

\* the status of path p when the last call was made
StatusAtCall(p) ==
    StatusOf(HeadTree(commits, last.head0), last.index0, last.cf0, last.wt0, p)

Entries(files, p) == {k \in 1..Len(files) : files[k].path = p}

\* C6: the sequence stage() returns holds every path whose status is new,
\* modified or deleted exactly once, no other path, and each with a kind
\* its status flags allow.
C6_ClassifiedExactlyOnce ==
    (last.fn = "stage" /\ last.ok) =>
        \A p \in Paths :
          /\ Cardinality(Entries(last.files, p)) =
               IF Relevant(StatusAtCall(p)) THEN 1 ELSE 0
          /\ \A k \in Entries(last.files, p) :
               KindAgrees(last.files[k].kind, StatusAtCall(p))

\* two changes of different kinds, one of a path with flags of both sides,
\* and a conflicted path left out
C6_Witness ==
    /\ last.fn = "stage" /\ last.ok
    /\ Len(last.files) >= 1
    /\ \E p \in Paths : Cardinality(StatusAtCall(p)) = 2
    /\ \E p \in Paths : /\ StatusAtCall(p) # {}
                        /\ Entries(last.files, p) = {}

\* C7: commit() is never called, and no commit made, by a run whose stage()
\* returned no change.
C7_NoEmptyCommit ==
    /\ (pc \in {"lines", "prompt", "commit", "spawn"}) => run.files # <<>>
    /\ last.fn \in {"lines", "commit"} => run.files # <<>>
    /\ run.commitId # 0 => run.files # <<>>
    /\ \A c \in 1..Len(commits) :
         commits[c].by = run.n /\ run.n # 0 => run.files # <<>>

C7_Witness == run.commitId # 0 /\ Len(run.files) = 2 /\ pc = "exited"

\* the frame of a step of a background process: the repository and the
\* interactive process are as they were
BgLeavesAlone ==
    /\ head' = head /\ commits' = commits
    /\ index' = index /\ conflicted' = conflicted /\ wt' = wt
    /\ run' = run /\ pc' = pc

\* C8: a push that cannot be started or that fails changes nothing: the
\* branch, the staging area and the interactive run stay as they are, the
\* remote is not moved, and the process exits without pushing again.
C8_PushFailureChangesNothing ==
    [][\A b \in Bg : \A c \in {bg'[j] : j \in 1..Len(bg')} :
         (c.by = b.by /\ c # b) =>
           /\ (b.pc = "main" /\ c.child = "none") =>
                c.pc = "exited" /\ c.exit # 0 /\ remote' = remote /\ BgLeavesAlone
           /\ c.child = "failure" /\ b.child = "running" =>
                remote' = remote /\ BgLeavesAlone
           /\ b.child = "failure" =>
                /\ c.pc = "exited" /\ c.pushes = 1 /\ c.child = "failure"
                /\ remote' = remote /\ BgLeavesAlone
           /\ IsAncestorOrSelf(commits', c.commit, head')]_vars

C8_Witness ==
    \E b \in Bg : /\ b.outcome = "PushFailed"
                  /\ run.n = b.by /\ run.exit = 0 /\ head = b.commit

\* C9: a run exits with 0 only with nothing to commit or with the commit
\* made and the push spawned; a failure to open, stage, count or commit
\* exits with a code other than 0, with no commit made and no push spawned.
C9_ExitCodes ==
    /\ (last.fn # "none" /\ ~last.ok) =>
         pc = "exited" /\ run.at \in {"stage", "lines", "commit"}
    /\ pc = "exited" =>
         /\ run.exit = 0 =>
              \/ /\ run.files = <<>> /\ run.at = "NoChanges"
                 /\ run.commitId = 0 /\ run.spawned = 0
              \/ /\ run.commitId # 0 /\ head = run.commitId
                 /\ run.spawned = 1 /\ \E b \in Bg : b.by = run.n
         /\ run.at \in {"open", "stage", "lines", "commit"} =>
              /\ run.exit # 0
              /\ run.commitId = 0 /\ head = run.head0
              /\ run.spawned = 0 /\ \A b \in Bg : b.by # run.n

\* a commit that failed after the changes had been staged
C9_Witness ==
    /\ pc = "exited" /\ run.at = "commit" /\ run.exit = 1
    /\ last.fn = "commit" /\ last.err = "config"
    /\ index # run.index0

\* C10: a second stage() with no edit since the first leaves the persisted
\* staging area as the first left it, lists no path twice, and lines()
\* returns after it what it returned after the first.
C10_RestageIdempotent ==
    /\ last.fn = "stage" =>
         \A p \in Paths : Cardinality(Entries(last.files, p)) <= 1
    /\ pass.n = 2 =>
         /\ index = pass.index
         /\ (pass.stat # NoStat /\ pass.stat2 # NoStat) => pass.stat2 = pass.stat

\* a second pass over staged changes, counted both times
C10_Witness ==
    /\ pass.n = 2
    /\ pass.stat.ok /\ pass.stat2.ok
    /\ pass.stat.ins + pass.stat.del > 0
    /\ last.fn = "lines"

\* the paths at which two trees differ
Differing(t, u) ==
    {p \in Paths : (p \in DOMAIN t) # (p \in DOMAIN u)
                   \/ (p \in DOMAIN t /\ p \in DOMAIN u /\ t[p] # u[p])}

\* the paths of the classified changes
Classified(files) == {files[k].path : k \in 1..Len(files)}

\* C11: the tree of the commit a run makes on a branch with history differs
\* from the tree of its parent in exactly the paths stage() classified:
\* every classified path differs and no other path does.
C11_TreeDiffIsClassified ==
    (run.commitId # 0 /\ run.head0 # 0 /\ Len(run.files) >= 1) =>
        Differing(commits[run.commitId].tree,
                  commits[commits[run.commitId].parents[1]].tree)
          = Classified(run.files)

\* C12: after a successful commit the interactive process reaches its exit
\* in every execution, whatever the background processes do and also when
\* they never take a step; the step that exits is never blocked, and when
\* it spawns it appends one background process that has not run yet and
\* leaves the others as they are: nothing is waited for or read back.
C12_ExitsWithoutWaiting ==
    /\ (pc = "spawn") ~> (pc = "exited")
    /\ [](pc = "spawn" => ENABLED MainSpawn)
    /\ [][(pc = "spawn" /\ pc' # pc) =>
            /\ pc' = "exited"
            /\ run'.at = "end" =>
                 /\ run'.exit = 0
                 /\ bg' = Append(bg, NewBackground(run.n, run.commitId))
            /\ run'.at # "end" => bg' = bg]_vars

\* the run has exited with 0 while the push it spawned has not started,
\* and the push of an earlier run is still waiting for git
C12_Witness ==
    /\ pc = "exited" /\ run.at = "end" /\ run.exit = 0
    /\ \E b \in Bg : b.by = run.n /\ b.pc = "main"
    /\ \E b \in Bg : b.by # run.n /\ b.pc = "wait" /\ b.child = "running"

\* a step of a background process: one of the processes is not as it was
BgStep ==
    \E i \in 1..Len(bg) :
        i <= Len(bg') /\ bg'[i].by = bg[i].by /\ bg'[i] # bg[i]

\* C13: a process started with RUN_BACKGROUND_TASK does the push and
\* nothing else.  Its steps make no call of stage(), lines() or commit(),
\* leave the staging area, the commits, the branch, the working tree and
\* the interactive process (its prompt too) as they are and start no
\* process of this program; it starts git push at most once.  Every
\* commit of an interactive run has at most one background process.
C13_BackgroundOnlyPushes ==
    /\ [](\A i, j \in 1..Len(bg) :
            /\ bg[i].commit = bg[j].commit => i = j
            /\ bg[i].by = bg[j].by => i = j
            /\ bg[i].pushes <= 1
            /\ IsBackground(bg[i].env))
    /\ [][BgStep =>
            /\ last' = last /\ pass' = pass
            /\ index' = index /\ conflicted' = conflicted
            /\ commits' = commits /\ head' = head
            /\ wt' = wt
            /\ pc' = pc /\ run' = run /\ nruns' = nruns
            /\ Len(bg') = Len(bg)
            /\ \A i \in 1..Len(bg) :
                 /\ bg'[i].commit = bg[i].commit
                 /\ bg'[i].env = bg[i].env]_vars

\* a push has run to its end and moved the remote while a later
\* interactive run sits at its prompt with changes staged
C13_Witness ==
    /\ pc = "prompt" /\ index # HeadTree(commits, head)
    /\ \E b \in Bg : /\ b.by # run.n /\ b.outcome = "Pushed"
                     /\ remote = b.commit

\* C14: a run writes the staging area at most once, and once when its
\* stage() succeeded.  The write comes in the step that completes the
\* scan, when every new, modified or deleted entry has had its mutation,
\* and persists the index those mutations made; no tree has been written
\* by then, and every write_tree of lines() or commit() comes after it.
C14_OneWriteBeforeTrees ==
    /\ [](/\ run.writes \in {0, 1}
          /\ pc \in {"idle", "main", "stage"} => run.writes = 0 /\ run.trees = 0
          /\ pc \in {"check", "lines", "prompt", "commit", "spawn"} =>
               run.writes = 1
          /\ run.trees > 0 => run.writes = 1 /\ run.scan >= 1)
    /\ [][/\ run'.n = run.n /\ run'.writes # run.writes =>
               /\ pc = "stage"
               /\ run.trees = 0 /\ run'.trees = 0
               /\ last'.fn = "stage" /\ last'.ok
               /\ run'.scan = Len(last'.muts)
               /\ \A p \in Paths :
                    Relevant(StatusOf(HeadTree(commits, head), index,
                                      conflicted, wt, p))
                      => \E k \in 1..Len(last'.muts) : last'.muts[k].path = p
               /\ index' = last'.mem
          /\ run'.n = run.n /\ run'.trees # run.trees =>
               /\ pc \in {"lines", "commit"}
               /\ run.writes = 1 /\ run'.writes = 1
               /\ index' = index]_vars

\* a run that staged two entries and has written the tree twice, in
\* lines() and in commit()
C14_Witness ==
    /\ pc = "spawn" /\ run.writes = 1 /\ run.trees = 2 /\ run.scan = 2
    /\ index # run.index0

\* the mutations of the index the entries of a status list call for, from
\* the k-th path on: one for each new, modified or deleted path
RECURSIVE MutationsDue(_)
MutationsDue(k) ==
    IF k > Len(PathOrder) THEN <<>>
    ELSE LET p == PathOrder[k]
             s == StatusAtCall(p)
             op == IF IsNew(s) \/ IsModified(s) THEN "add_path" ELSE "remove_path"
         IN IF Relevant(s)
            THEN <<[op |-> op, path |-> p]>> \o MutationsDue(k + 1)
            ELSE MutationsDue(k + 1)

\* the in-memory index holds at p what mutation op leaves there
Mutated(op, p) ==
    IF op = "add_path"
    THEN p \in DOMAIN last.mem /\ p \in DOMAIN last.wt0 /\ last.mem[p] = last.wt0[p]
    ELSE p \notin DOMAIN last.mem

\* the in-memory index holds at p what the index held before the call
Untouched(p) ==
    /\ (p \in DOMAIN last.mem) = (p \in DOMAIN last.index0)
    /\ p \in DOMAIN last.mem => last.mem[p] = last.index0[p]

\* C15: in stage() every classified entry has exactly one mutation of the
\* index, on its own path: add_path for Added and Modified, remove_path for
\* Deleted; an entry that is skipped (unmodified, conflicted) has no
\* mutation and is not listed.  A call that fails has made the mutations
\* of the entries before the failing one and no other.
C15_OneMutationPerEntry ==
    last.fn = "stage" =>
      /\ last.ok =>
           /\ last.muts = MutationsDue(1)
           /\ Len(last.files) = Len(last.muts)
           /\ \A k \in 1..Len(last.files) :
                /\ last.muts[k].path = last.files[k].path
                /\ last.muts[k].op =
                     IF last.files[k].kind = "INDEX_DELETED"
                     THEN "remove_path" ELSE "add_path"
      /\ ~last.ok =>
           /\ Len(last.muts) <= Len(MutationsDue(1))
           /\ last.muts = SubSeq(MutationsDue(1), 1, Len(last.muts))
      /\ \A k \in 1..Len(last.muts) : Mutated(last.muts[k].op, last.muts[k].path)
      /\ \A p \in Paths :
           /\ Cardinality({k \in 1..Len(last.muts) : last.muts[k].path = p}) <= 1
           /\ (\A k \in 1..Len(last.muts) : last.muts[k].path # p) => Untouched(p)
           /\ ~Relevant(StatusAtCall(p)) =>
                /\ Entries(last.files, p) = {}
                /\ \A k \in 1..Len(last.muts) : last.muts[k].path # p

\* a deleted path removed and listed, and a conflicted path, whose file
\* is not what the index holds, skipped
C15_Witness ==
    /\ last.fn = "stage" /\ last.ok
    /\ Len(last.files) = 1 /\ last.muts[1].op = "remove_path"
    /\ \E p \in last.cf0 :
         p \in DOMAIN last.wt0 /\ p \in DOMAIN last.index0
         /\ last.wt0[p] # last.index0[p]

\* C16: for every path whose file is gone from the working tree (its
\* status has WT_DELETED), one with INDEX_NEW or INDEX_MODIFIED too,
\* stage() succeeds, lists the path as Deleted, and the persisted staging
\* area does not hold the path afterwards.
C16_WorkingDeletedIsDeleted ==
    (last.fn = "stage" /\ ~last.injected) =>
        \A p \in Paths :
          "WT_DELETED" \in StatusAtCall(p) =>
            /\ last.ok
            /\ \E k \in Entries(last.files, p) :
                 last.files[k].kind = "INDEX_DELETED"
            /\ p \notin DOMAIN index

\* C17: when commit() fails (the tree cannot be written, user.name or
\* user.email is missing, HEAD cannot be resolved, the commit cannot be
\* written or the branch cannot be moved) the branch points where it did
\* before the call, the persisted staging area holds what stage() left in
\* it, the run exits with a code other than 0 and no push is spawned.  A
\* step moves the branch only to a new commit written whole in the same
\* step: its tree the staged one, its parent the prior tip, its message
\* the title.
C17_FailedCommitLeavesBranch ==
    /\ []((last.fn = "commit" /\ ~last.ok) =>
            /\ head = last.head0 /\ head = run.head0
            /\ index = last.index0
            /\ pass.n >= 1 => index = pass.index
            /\ pc = "exited" /\ run.at = "commit" /\ run.exit = 1
            /\ run.commitId = 0
            /\ run.spawned = 0 /\ \A b \in Bg : b.by # run.n)
    /\ [](head \in 0..Len(commits))
    /\ [][head' # head =>
            /\ last'.fn = "commit" /\ last'.ok
            /\ commits' = Append(commits, [tree |-> index,
                                           parents |-> IF head = 0 THEN <<>>
                                                       ELSE <<head>>,
                                           msg |-> run.title, by |-> run.n])
            /\ head' = Len(commits')]_vars

\* commit() failed when it moved the branch: the commit object is in the
\* object database, the branch is where it was and the changes are staged
C17_Witness ==
    /\ last.fn = "commit" /\ ~last.ok /\ last.fault = "update_ref"
    /\ Len(commits) > head /\ head = run.head0
    /\ index # HeadTree(commits, head)
    /\ pc = "exited" /\ run.exit = 1

\* C18: when stage() fails before its index.write() (repo.index() or
\* repo.statuses() fails, or the add_path or remove_path of an entry
\* fails) the persisted staging area is what it was before the run: the
\* mutations made to the entries before the failing one are in memory
\* only; no list of changes is returned and the run exits with 1.
C18_FailedStageLeavesIndex ==
    (last.fn = "stage" /\ ~last.ok /\ last.fault # "write") =>
        /\ index = last.index0
        /\ run.n # 0 =>
             /\ index = run.index0
             /\ run.files = <<>> /\ run.writes = 0
             /\ pc = "exited" /\ run.at = "stage" /\ run.exit = 1
        /\ last.files = <<>>

\* the second entry failed after the first had been staged in memory
C18_Witness ==
    /\ last.fn = "stage" /\ ~last.ok /\ last.fault = "entry"
    /\ Len(last.muts) = 1 /\ last.mem # last.index0
    /\ index = run.index0
    /\ pc = "exited" /\ run.exit = 1

\* C19: once git push has finished the background process ends in Pushed
\* or in PushFailed with exit code 0: after a push that succeeded it
\* reports the success and exits with 0, after one that failed it reports
\* the failure and exits with 0.
C19_BackgroundExitsNormally ==
    \A b \in Bg :
      (b.pc = "exited" /\ b.outcome # "WaitFailed") =>
        /\ b.child = "success" => b.outcome = "Pushed" /\ b.exit = 0
        /\ b.child = "failure" => b.outcome = "PushFailed" /\ b.exit = 0

====
